---------------------------- MODULE Spec2Model ----------------------------
(***************************************************************************)
(* Model of the top_holders bot: the Alchemy client (paginated transfer    *)
(* fetch, balance reconstruction, ranking, address validation) and the     *)
(* Telegram command handlers that drive it.                                *)
(*                                                                         *)
(* Python strings are modelled as sequences of one-character strings, so   *)
(* that lower(), startswith(), slicing and int() act on characters.        *)
(***************************************************************************)
EXTENDS Integers, Sequences, FiniteSets

VARIABLES
    arg,        \* input of the pure function under check (per specification)
    ret,        \* its result, or NotCalled before the call
    pc,         \* position of the bot: "idle", "meta" or "fetch"
    cmd,        \* the command being handled
    requests,   \* upstream JSON-RPC requests issued by the current command
    transfers,  \* get_asset_transfers: the local list `transfers`
    page_key,   \* get_asset_transfers: the local `page_key`
    responses,  \* the successful transfer-page responses, in response order
    metadata,   \* top_holders_command: where token_metadata came from
    lookup,     \* how the fetch loop of the current command ended
    replies,    \* replies sent for the current command (reply_text, edit_text)
    handled     \* number of commands handled so far

vars == <<arg, ret, pc, cmd, requests, transfers, page_key, responses,
          metadata, lookup, replies, handled>>

botvars == <<pc, cmd, requests, transfers, page_key, responses, metadata,
             lookup, replies, handled>>

-----------------------------------------------------------------------------
(* Bounds of the model.                                                    *)

MaxTransfers == 2      \* transfers in an input list of calculate_token_balances
MaxValueLen == 4       \* characters in a transfer's value string
MaxTopN == 3           \* largest requested count top_n
MaxBalance == 3        \* largest balance of an input mapping of the ranking
MaxHeadLen == 2        \* freely chosen leading characters of an address input
MaxPages == 3          \* page requests the upstream lets one lookup make
MaxCommands == 2       \* commands in one run of the bot

(* Program constants.                                                      *)

AddressLength == 40    \* is_valid_address: len(address) != 40
BotTopN == 20          \* top_holders_command: top_n=20

-----------------------------------------------------------------------------
(* Characters and Python string primitives.                                *)

Min(a, b) == IF a < b THEN a ELSE b
Max(a, b) == IF a > b THEN a ELSE b

HexLower == <<"0", "1", "2", "3", "4", "5", "6", "7", "8", "9",
              "a", "b", "c", "d", "e", "f">>

\* str.lower() on one character
LowerChar(c) ==
    CASE c = "A" -> "a" [] c = "B" -> "b" [] c = "C" -> "c"
      [] c = "D" -> "d" [] c = "E" -> "e" [] c = "F" -> "f"
      [] c = "X" -> "x" [] c = "G" -> "g" [] c = "Z" -> "z"
      [] OTHER -> c

\* str.lower()
Lower(s) == [i \in 1..Len(s) |-> LowerChar(s[i])]

\* s.startswith("0x")
StartsWith0x(s) == Len(s) >= 2 /\ s[1] = "0" /\ s[2] = "x"

\* s[n:]
DropFirst(s, n) == SubSeq(s, n + 1, Len(s))

\* n copies of the character c
Rep(c, n) == [i \in 1..n |-> c]

\* _PyLong_DigitValue[c] < base
IsDigit(c, base) ==
    \E i \in 1..16 : HexLower[i] = LowerChar(c) /\ i - 1 < base

DigitValue(c) == (CHOOSE i \in 1..16 : HexLower[i] = LowerChar(c)) - 1

IsSpace(c) == c = " "

RECURSIVE LStrip(_)
LStrip(s) == IF s /= <<>> /\ IsSpace(Head(s)) THEN LStrip(Tail(s)) ELSE s

\* length of the longest prefix made of digits of the base and underscores
RECURSIVE DigitRunLen(_, _)
DigitRunLen(s, base) ==
    IF s /= <<>> /\ (IsDigit(Head(s), base) \/ Head(s) = "_")
    THEN 1 + DigitRunLen(Tail(s), base)
    ELSE 0

\* value of a run of digits and underscores, most significant digit first
RECURSIVE DigitsValue(_, _, _)
DigitsValue(s, base, acc) ==
    IF s = <<>> THEN acc
    ELSE DigitsValue(Tail(s), base,
                     IF Head(s) = "_" THEN acc
                     ELSE acc * base + DigitValue(Head(s)))

ValueError == [ok |-> FALSE, val |-> 0]

(* The builtin int(s, base) on a str, for base 10 and base 16, as          *)
(* PyLong_FromString scans it: surrounding whitespace is dropped, one sign *)
(* is accepted, base 16 accepts a 0x or 0X prefix (and one underscore      *)
(* after it), and digits may be separated by single underscores.           *)

\* a run of digits and underscores that int() accepts
WellFormedRun(run) ==
    /\ run /= <<>>
    /\ run[1] /= "_"
    /\ run[Len(run)] /= "_"
    /\ \A i \in 1..(Len(run) - 1) : ~(run[i] = "_" /\ run[i + 1] = "_")

\* the digits d[1..n] and what follows them: only whitespace may follow
ScanRun(d, n, neg) ==
    [ok |-> WellFormedRun(SubSeq(d, 1, n)) /\ LStrip(DropFirst(d, n)) = <<>>,
     neg |-> neg,
     run |-> SubSeq(d, 1, n)]

HasBasePrefix(b, base) ==
    base = 16 /\ Len(b) >= 2 /\ b[1] = "0" /\ (b[2] = "x" \/ b[2] = "X")

\* one underscore is allowed right after the prefix
SkipUnderscore(c) == IF c /= <<>> /\ Head(c) = "_" THEN Tail(c) ELSE c

\* after the sign: the optional prefix, then the digits
ScanPrefix(b, base, neg) ==
    IF HasBasePrefix(b, base)
    THEN ScanRun(SkipUnderscore(DropFirst(b, 2)),
                 DigitRunLen(SkipUnderscore(DropFirst(b, 2)), base), neg)
    ELSE ScanRun(b, DigitRunLen(b, base), neg)

\* after the leading whitespace: the optional sign
ScanSign(a, base) ==
    IF a /= <<>> /\ (Head(a) = "+" \/ Head(a) = "-")
    THEN ScanPrefix(Tail(a), base, Head(a) = "-")
    ELSE ScanPrefix(a, base, FALSE)

\* whether the literal is accepted, its sign and its run of digits
PyIntScan(s, base) == ScanSign(LStrip(s), base)

\* int(s, base) raises no ValueError
PyIntOk(s, base) == PyIntScan(s, base).ok

Signed(neg, magnitude) == IF neg THEN 0 - magnitude ELSE magnitude

PyIntOfScan(p, base) ==
    IF ~p.ok THEN ValueError
    ELSE [ok |-> TRUE, val |-> Signed(p.neg, DigitsValue(p.run, base, 0))]

\* int(s, base): the value, or ValueError
PyInt(s, base) == PyIntOfScan(PyIntScan(s, base), base)

-----------------------------------------------------------------------------
(* Transfer records.  A JSON value is a record [kind, s, n]: a string s,   *)
(* an integer n, a float of n tenths, NaN, Infinity or null.  An address   *)
(* is a string; a missing "from" or "to" key reads as the empty string.    *)

StrValue(s) == [kind |-> "str", s |-> s, n |-> 0]
IntValue(n) == [kind |-> "int", s |-> <<>>, n |-> n]
FloatValue(tenths) == [kind |-> "float", s |-> <<>>, n |-> tenths]
NanValue == [kind |-> "nan", s |-> <<>>, n |-> 0]
InfValue == [kind |-> "inf", s |-> <<>>, n |-> 0]
NullValue == [kind |-> "none", s |-> <<>>, n |-> 0]

Transfer(f, t, v) == [from |-> f, to |-> t, value |-> v]

\* the sentinel literal "0x0000000000000000000000000000000000000000"
ZeroAddress == <<"0", "x">> \o Rep("0", 40)

\* int(x) on a float of n tenths: truncation toward zero
TruncTenths(n) == IF n >= 0 THEN n \div 10 ELSE 0 - ((0 - n) \div 10)

\* lines 95 and 100-101: the int() of a string value, or the continue
ParsedOrSkipped(r) ==
    IF r.ok THEN [st |-> "ok", val |-> r.val] ELSE [st |-> "skip", val |-> 0]

(* Lines 93-101: the value of a transfer.  st is "ok" with the value,      *)
(* "skip" for the continue branches, "raise" for an exception the except   *)
(* clause (ValueError, TypeError) does not catch: int(inf) raises          *)
(* OverflowError.                                                          *)
ParseValue(v) ==
    IF v.kind = "str"
    THEN ParsedOrSkipped(PyInt(v.s, IF StartsWith0x(v.s) THEN 16 ELSE 10))
    ELSE IF v.kind = "int" THEN [st |-> "ok", val |-> v.n]
    ELSE IF v.kind = "float" THEN [st |-> "ok", val |-> TruncTenths(v.n)]
    ELSE IF v.kind = "nan" THEN [st |-> "skip", val |-> 0]
    ELSE IF v.kind = "inf" THEN [st |-> "raise", val |-> 0]
    ELSE [st |-> "skip", val |-> 0]

-----------------------------------------------------------------------------
(* A dict is the sequence of its <<key, value>> items in insertion order.  *)

DictHas(d, k) == \E i \in 1..Len(d) : d[i][1] = k

DictGet(d, k) ==
    IF DictHas(d, k) THEN d[CHOOSE i \in 1..Len(d) : d[i][1] = k][2] ELSE 0

\* defaultdict(int): d[k] += delta
DictAdd(d, k, delta) ==
    IF DictHas(d, k)
    THEN [i \in 1..Len(d) |->
             IF d[i][1] = k THEN <<k, d[i][2] + delta>> ELSE d[i]]
    ELSE Append(d, <<k, delta>>)

\* the dict as a mapping: its set of items
Items(d) == {d[i] : i \in 1..Len(d)}

Keys(d) == {d[i][1] : i \in 1..Len(d)}

\* the sender is credited instead of debited
DebitFrom_Credits(d, from_addr, value) ==
    IF from_addr /= <<>> /\ from_addr /= ZeroAddress
    THEN DictAdd(d, from_addr, value)
    ELSE d

\* the sender is debited only while its running balance covers the value
DebitFrom_Clamped(d, from_addr, value) ==
    IF from_addr /= <<>> /\ from_addr /= ZeroAddress
       /\ DictGet(d, from_addr) >= value
    THEN DictAdd(d, from_addr, 0 - value)
    ELSE d

\* lines 104-105: the sender's side of one transfer
DebitFrom(d, from_addr, value) ==
    IF from_addr /= <<>> /\ from_addr /= ZeroAddress
    THEN DictAdd(d, from_addr, 0 - value)
    ELSE d

\* the receiver is credited without the test for the sentinel
CreditTo_NoSentinelTest(d, to_addr, value) ==
    IF to_addr /= <<>> THEN DictAdd(d, to_addr, value) ELSE d

\* lines 107-108: the receiver's side of one transfer
CreditTo(d, to_addr, value) ==
    IF to_addr /= <<>> /\ to_addr /= ZeroAddress
    THEN DictAdd(d, to_addr, value)
    ELSE d

\* lines 102-108: one transfer whose value did not raise
ApplyTransfer(d, from_addr, to_addr, p) ==
    IF p.st = "skip" THEN d
    ELSE CreditTo(DebitFrom(d, from_addr, p.val), to_addr, p.val)

\* lines 87-108: the loop over the transfers, from the dict d
RECURSIVE ApplyTransfers(_, _)
ApplyTransfers(d, ts) ==
    IF ts = <<>> THEN [raised |-> FALSE, balances |-> d]
    ELSE IF ParseValue(Head(ts).value).st = "raise"
    THEN [raised |-> TRUE, balances |-> <<>>]
    ELSE ApplyTransfers(
             ApplyTransfer(d, Lower(Head(ts).from), Lower(Head(ts).to),
                           ParseValue(Head(ts).value)),
             Tail(ts))

IsPositive(item) == item[2] > 0

IsNonNegative(item) == item[2] >= 0

\* the filter keeps a balance of zero
PositiveBalances_KeepsZero(d) == SelectSeq(d, IsNonNegative)

\* line 111: the dict comprehension
PositiveBalances(d) == SelectSeq(d, IsPositive)

\* line 111 on the outcome of the loop
Filtered(r) ==
    IF r.raised THEN r
    ELSE [raised |-> FALSE, balances |-> PositiveBalances(r.balances)]

\* AlchemyClient.calculate_token_balances
calculate_token_balances(ts) == Filtered(ApplyTransfers(<<>>, ts))

-----------------------------------------------------------------------------
(* Ranking.                                                                *)

\* one step of a stable sort by balance, largest first
InsertHolder(sorted, e) ==
    LET k == Cardinality({i \in 1..Len(sorted) : sorted[i][2] >= e[2]})
    IN  SubSeq(sorted, 1, k) \o <<e>> \o SubSeq(sorted, k + 1, Len(sorted))

RECURSIVE SortInto(_, _)
SortInto(acc, s) ==
    IF s = <<>> THEN acc ELSE SortInto(InsertHolder(acc, Head(s)), Tail(s))

\* the same stable sort, smallest first
InsertHolderAscending(sorted, e) ==
    LET k == Cardinality({i \in 1..Len(sorted) : sorted[i][2] <= e[2]})
    IN  SubSeq(sorted, 1, k) \o <<e>> \o SubSeq(sorted, k + 1, Len(sorted))

RECURSIVE SortIntoAscending(_, _)
SortIntoAscending(acc, s) ==
    IF s = <<>> THEN acc
    ELSE SortIntoAscending(InsertHolderAscending(acc, Head(s)), Tail(s))

\* the sort without reverse=True
sorted_holders_Ascending(balances) == SortIntoAscending(<<>>, balances)

\* line 135: sorted(balances.items(), key=lambda x: x[1], reverse=True)
sorted_holders(balances) == SortInto(<<>>, balances)

\* s[:n]
SliceTo(s, n) ==
    IF n >= 0 THEN SubSeq(s, 1, Min(n, Len(s)))
    ELSE SubSeq(s, 1, Max(Len(s) + n, 0))

\* lines 128-139: the ranking step of get_top_holders on a balance mapping
top_of(balances, top_n) ==
    IF balances = <<>> THEN <<>>
    ELSE SliceTo(sorted_holders(balances), top_n)

\* lines 128-139 on the outcome of calculate_token_balances
Ranked(r, top_n) ==
    IF r.raised THEN [raised |-> TRUE, holders |-> <<>>]
    ELSE [raised |-> FALSE, holders |-> top_of(r.balances, top_n)]

(* AlchemyClient.get_top_holders on the list get_asset_transfers returned: *)
(* lines 119-139, with the re-raise of lines 141-143.                      *)
get_top_holders(fetched, top_n) ==
    IF fetched = <<>> THEN [raised |-> FALSE, holders |-> <<>>]
    ELSE Ranked(calculate_token_balances(fetched), top_n)

-----------------------------------------------------------------------------
(* Address validation.  The input is a record [kind, s]: a string s, or a  *)
(* value that is no string.                                                *)

StrInput(s) == [kind |-> "str", s |-> s]
NoneInput == [kind |-> "none", s |-> <<>>]

\* lines 245-246: the optional prefix is removed
WithoutPrefix(s) == IF StartsWith0x(s) THEN DropFirst(s, 2) ELSE s

\* lines 249-256 on the string without its prefix
IsFortyDigitInt(a) == IF Len(a) /= AddressLength THEN FALSE ELSE PyIntOk(a, 16)

\* AlchemyClient.is_valid_address
is_valid_address(address) ==
    IF address.kind /= "str" \/ address.s = <<>> THEN FALSE
    ELSE IsFortyDigitInt(WithoutPrefix(address.s))

\* TokenHolderBot.is_valid_address, the same code in the bot
bot_is_valid_address(address) ==
    IF address.kind /= "str" \/ address.s = <<>> THEN FALSE
    ELSE IsFortyDigitInt(WithoutPrefix(address.s))

-----------------------------------------------------------------------------
(* Results of the pure functions.                                          *)

\* None, as the value of page_key and of a response without "pageKey"
NoKey == "(none)"

\* the empty string as a page key
EmptyKey == ""

NotCalled == [called |-> FALSE, val |-> <<>>]
Returned(v) == [called |-> TRUE, val |-> v]

Command(name, user, args) == [name |-> name, user |-> user, args |-> args]

NoCommand == Command("none", 0, <<>>)

\* the bot at rest: the state after TokenHolderBot.__init__
BotIdle ==
    /\ pc = "idle"
    /\ cmd = NoCommand
    /\ requests = <<>>
    /\ transfers = <<>>
    /\ page_key = NoKey
    /\ responses = <<>>
    /\ metadata = "none"
    /\ lookup = "none"
    /\ replies = <<>>
    /\ handled = 0

\* all sequences over S of length at most n
SeqsUpTo(S, n) == UNION {[1..k -> S] : k \in 0..n}

-----------------------------------------------------------------------------
(* Specification SpecBalances: calculate_token_balances on a transfer list.*)

AddrA == <<"0", "x">> \o Rep("a", 40)
AddrAUpper == <<"0", "x">> \o Rep("A", 40)
AddrB == <<"0", "x">> \o Rep("b", 40)
ZeroUpper == <<"0", "X">> \o Rep("0", 40)

Hex64 == StrValue(<<"0", "x", "6", "4">>)
Hex32 == StrValue(<<"0", "x", "3", "2">>)
Minus5 == StrValue(<<"-", "5">>)
Unparsable == StrValue(<<"z", "z">>)

FromAddrs == {ZeroAddress, ZeroUpper, AddrAUpper, AddrB}
ToAddrs == {ZeroUpper, AddrA, AddrB, <<>>}

\* every sender and receiver with the two hex values, and two transfers into
\* B whose value is negative or does not parse
BalTransfers ==
    {Transfer(f, t, v) : f \in FromAddrs, t \in ToAddrs, v \in {Hex64, Hex32}}
        \cup {Transfer(f, AddrB, v) :
                 f \in {ZeroAddress, AddrAUpper}, v \in {Minus5, Unparsable}}

InitBalances ==
    /\ arg \in SeqsUpTo(BalTransfers, MaxTransfers)
    /\ ret = NotCalled
    /\ BotIdle

CallCalculateTokenBalances ==
    /\ ~ret.called
    /\ ret' = Returned(calculate_token_balances(arg))
    /\ UNCHANGED <<arg, botvars>>

NextBalances == CallCalculateTokenBalances

SpecBalances == InitBalances /\ [][NextBalances]_vars

-----------------------------------------------------------------------------
(* Reference definitions for the claims about balances: sums over the      *)
(* transfers of a list, independent of the order of the loop.              *)

AllParse(ts) == \A i \in 1..Len(ts) : ParseValue(ts[i].value).st = "ok"

\* the parsed value of a transfer; 0 for a transfer the loop skips
ValueOf(t) == ParseValue(t.value).val

RECURSIVE SumValues(_, _)
SumValues(ts, I) ==
    IF I = {} THEN 0
    ELSE LET i == CHOOSE j \in I : TRUE
         IN  ValueOf(ts[i]) + SumValues(ts, I \ {i})

Received(ts, a) == SumValues(ts, {i \in 1..Len(ts) : Lower(ts[i].to) = a})
Sent(ts, a) == SumValues(ts, {i \in 1..Len(ts) : Lower(ts[i].from) = a})
Net(ts, a) == Received(ts, a) - Sent(ts, a)

\* the lower-cased non-zero addresses of a transfer list
HolderAddrs(ts) ==
    ({Lower(ts[i].from) : i \in 1..Len(ts)}
        \cup {Lower(ts[i].to) : i \in 1..Len(ts)}) \ {ZeroAddress, <<>>}

Reorderings(n) ==
    {f \in [1..n -> 1..n] : \A i, j \in 1..n : f[i] = f[j] => i = j}

Permuted(ts, f) == [i \in 1..Len(ts) |-> ts[f[i]]]

MintThenTransfer ==
    <<Transfer(ZeroAddress, AddrA, Hex64), Transfer(AddrAUpper, AddrB, Hex32)>>

(* C1: when every value of the list parses, each lower-cased non-zero      *)
(* address whose received total minus sent total is positive is returned   *)
(* with exactly that difference as its balance; a mint of 0x64 to A        *)
(* followed by a transfer of 0x32 from A to B gives exactly {A: 50, B: 50}.*)
C1_BalanceIsReceivedMinusSent ==
    (ret.called /\ AllParse(arg)) =>
        /\ ~ret.val.raised
        /\ \A a \in HolderAddrs(arg) :
              Net(arg, a) > 0 => <<a, Net(arg, a)>> \in Items(ret.val.balances)
        /\ arg = MintThenTransfer =>
              Items(ret.val.balances) = {<<AddrA, 50>>, <<AddrB, 50>>}

C1_Witness ==
    /\ ret.called
    /\ arg = MintThenTransfer
    /\ Items(ret.val.balances) = {<<AddrA, 50>>, <<AddrB, 50>>}

(* C2: every permutation of the transfer list gives the same balance       *)
(* mapping (same keys, same balances) as the list itself.                  *)
C2_OrderIndependent ==
    ret.called =>
        \A f \in Reorderings(Len(arg)) :
            LET r == calculate_token_balances(Permuted(arg, f))
            IN  /\ r.raised = ret.val.raised
                /\ Items(r.balances) = Items(ret.val.balances)

\* a list whose two transfers, swapped, drive A's running balance negative
C2_Witness ==
    /\ ret.called
    /\ arg = <<Transfer(AddrAUpper, AddrB, Hex32),
               Transfer(ZeroAddress, AddrA, Hex64)>>
    /\ Items(ret.val.balances) = {<<AddrA, 50>>, <<AddrB, 50>>}

(* C6: every entry of the returned mapping, and every pair get_top_holders *)
(* returns, has a balance > 0; an address whose accumulated balance is     *)
(* <= 0 is absent from the result.                                         *)
C6_OnlyPositiveBalances ==
    (ret.called /\ ~ret.val.raised) =>
        /\ \A item \in Items(ret.val.balances) : item[2] > 0
        /\ \A a \in HolderAddrs(arg) :
              Net(arg, a) <= 0 => a \notin Keys(ret.val.balances)
        /\ \A item \in Items(get_top_holders(arg, BotTopN).holders) :
              item[2] > 0

\* B sent more than it received and A's balance came back to 0
C6_Witness ==
    /\ ret.called
    /\ \E a, b \in HolderAddrs(arg) :
          /\ Net(arg, a) < 0
          /\ Net(arg, b) = 0
          /\ DictHas(ApplyTransfers(<<>>, arg).balances, b)
          /\ a \notin Keys(ret.val.balances)
          /\ b \notin Keys(ret.val.balances)

(* C7: the returned mapping has no entry keyed by the zero address, in any *)
(* letter case, whatever transfers from or to it the list holds.           *)
C7_NoZeroAddressKey ==
    (ret.called /\ ~ret.val.raised) =>
        \A k \in Keys(ret.val.balances) : Lower(k) /= ZeroAddress

\* a mint from "0X00..." and a burn to "0X00..." were applied
C7_Witness ==
    /\ ret.called
    /\ \E i, j \in 1..Len(arg) :
          /\ arg[i].from = ZeroUpper /\ arg[i].to = AddrA
          /\ arg[j].to = ZeroUpper /\ arg[j].from = AddrB
          /\ ParseValue(arg[i].value).st = "ok"
          /\ ParseValue(arg[j].value).st = "ok"
    /\ ret.val.balances /= <<>>

-----------------------------------------------------------------------------
(* Specification SpecRank: the ranking step on a balance mapping.          *)

AddrC == <<"0", "x">> \o Rep("c", 40)
RankKeys == {AddrA, AddrB, AddrC}

\* the mappings calculate_token_balances can return: distinct keys in any
\* insertion order, balances > 0
RankDicts ==
    {d \in SeqsUpTo(RankKeys \X (1..MaxBalance), Cardinality(RankKeys)) :
        \A i, j \in 1..Len(d) : d[i][1] = d[j][1] => i = j}

InitRank ==
    /\ arg \in [balances : RankDicts, top_n : 0..MaxTopN]
    /\ ret = NotCalled
    /\ BotIdle

CallTopOf ==
    /\ ~ret.called
    /\ ret' = Returned([holders |-> top_of(arg.balances, arg.top_n),
                        of_no_transfers |-> get_top_holders(<<>>, arg.top_n)])
    /\ UNCHANGED <<arg, botvars>>

NextRank == CallTopOf

SpecRank == InitRank /\ [][NextRank]_vars

(* C9: the ranking step returns at most N pairs of the mapping, each once, *)
(* in non-increasing balance order, every returned balance >= every        *)
(* balance left out; an empty mapping or an empty transfer list gives an   *)
(* empty list and no error.                                                *)
C9_TopNDescending ==
    ret.called =>
        LET h == ret.val.holders
            b == arg.balances
        IN  /\ Len(h) <= arg.top_n
            /\ \A i, j \in 1..Len(h) : i < j => h[i][2] >= h[j][2]
            /\ Items(h) \subseteq Items(b)
            /\ Cardinality(Items(h)) = Len(h)
            /\ \A x \in Items(b) \ Items(h) : \A y \in Items(h) : y[2] >= x[2]
            /\ b = <<>> => h = <<>>
            /\ ret.val.of_no_transfers = [raised |-> FALSE, holders |-> <<>>]

\* three holders inserted smallest first, two of them requested
C9_Witness ==
    /\ ret.called
    /\ Len(arg.balances) = 3
    /\ arg.balances[1][2] < arg.balances[2][2]
    /\ arg.balances[2][2] < arg.balances[3][2]
    /\ arg.top_n = 2
    /\ ret.val.holders = <<arg.balances[3], arg.balances[2]>>

-----------------------------------------------------------------------------
(* Specification SpecValue: one transfer value inside a fixed list.        *)

ValueChars == {"0", "x", "1", "a", "2", "6", "-", "_", " ", "g"}

ValueInputs ==
    {StrValue(s) : s \in SeqsUpTo(ValueChars, MaxValueLen)}
        \cup {IntValue(26), NanValue, NullValue}

\* a mint of 0x64 to A, a transfer from A to B of the value, a mint of 0x32 to B
ListWithValue(v) ==
    <<Transfer(ZeroAddress, AddrA, Hex64),
      Transfer(AddrAUpper, AddrB, v),
      Transfer(ZeroAddress, AddrB, Hex32)>>

InitValue ==
    /\ arg \in ValueInputs
    /\ ret = NotCalled
    /\ BotIdle

CallWithValue ==
    /\ ~ret.called
    /\ ret' = Returned(calculate_token_balances(ListWithValue(arg)))
    /\ UNCHANGED <<arg, botvars>>

NextValue == CallWithValue

SpecValue == InitValue /\ [][NextValue]_vars

HexChars == {"0", "1", "2", "3", "4", "5", "6", "7", "8", "9",
             "a", "b", "c", "d", "e", "f", "A", "B", "C", "D", "E", "F"}
DecChars == {"0", "1", "2", "3", "4", "5", "6", "7", "8", "9"}

AllIn(s, S) == \A i \in 1..Len(s) : s[i] \in S

\* a 0x-prefixed hex string
IsHexString(s) == StartsWith0x(s) /\ Len(s) > 2 /\ AllIn(DropFirst(s, 2), HexChars)

\* a decimal string
IsDecString(s) == Len(s) > 0 /\ AllIn(s, DecChars)

\* the fixed list's balances when the middle transfer moves n from A to B
BalancesMoving(n) ==
    {item \in {<<AddrA, 100 - n>>, <<AddrB, 50 + n>>} : item[2] > 0}

\* the fixed list's balances when the middle transfer is skipped
BalancesSkipping == {<<AddrA, 100>>, <<AddrB, 50>>}

(* C8: a value is parsed as an unsigned integer: a 0x-prefixed hex string  *)
(* gives its hex value ("0x1a" -> 26), a decimal string its decimal value  *)
(* ("26" -> 26); a transfer with any other value is skipped, changes no    *)
(* balance and raises nothing, and the other transfers are still applied.  *)
C8_UnsignedParseOrSkip ==
    ret.called =>
        /\ ~ret.val.raised
        /\ Items(ret.val.balances) =
              IF arg.kind = "str" /\ IsHexString(arg.s)
              THEN BalancesMoving(DigitsValue(DropFirst(arg.s, 2), 16, 0))
              ELSE IF arg.kind = "str" /\ IsDecString(arg.s)
              THEN BalancesMoving(DigitsValue(arg.s, 10, 0))
              ELSE IF arg.kind = "int" /\ arg.n >= 0
              THEN BalancesMoving(arg.n)
              ELSE BalancesSkipping

-----------------------------------------------------------------------------
(* Specification SpecAddress: is_valid_address on an input string.         *)

AddrChars == {"0", "x", "a", "F", "g", "-", "_", " "}

\* "0x" followed by "ab" twenty times
AbAddress == <<"0", "x">> \o [i \in 1..40 |-> IF i % 2 = 1 THEN "a" ELSE "b"]

(* Inputs: an optional 0x or 0X, up to MaxHeadLen free characters, a run   *)
(* of one hex digit that brings the length near AddressLength, and up to   *)
(* one free last character; and a few short strings and a non-string.      *)
AddressInputs ==
    {StrInput(pre \o head \o Rep("a", n) \o last) :
        pre \in {<<>>, <<"0", "x">>, <<"0", "X">>},
        head \in SeqsUpTo(AddrChars, MaxHeadLen),
        n \in (AddressLength - 3)..AddressLength,
        last \in SeqsUpTo(AddrChars, 1)}
      \cup {StrInput(<<>>), StrInput(<<"1", "2", "3", "4">>),
            StrInput(<<"0", "x">>), StrInput(AbAddress), NoneInput}

InitAddress ==
    /\ arg \in AddressInputs
    /\ ret = NotCalled
    /\ BotIdle

CallIsValidAddress ==
    /\ ~ret.called
    /\ ret' = Returned([client |-> is_valid_address(arg),
                        bot |-> bot_is_valid_address(arg)])
    /\ UNCHANGED <<arg, botvars>>

NextAddress == CallIsValidAddress

SpecAddress == InitAddress /\ [][NextAddress]_vars

\* after removing one optional leading "0x": exactly 40 hexadecimal digits
IsFortyHexDigits(address) ==
    /\ address.kind = "str"
    /\ LET a == IF StartsWith0x(address.s) THEN DropFirst(address.s, 2)
                ELSE address.s
       IN  Len(a) = 40 /\ AllIn(a, HexChars)

(* C10: is_valid_address, in the client and in the bot, returns true       *)
(* exactly for the strings that after removing one optional leading "0x"   *)
(* are 40 hexadecimal digits, and false for every other input.             *)
C10_ValidIffFortyHexDigits ==
    ret.called =>
        /\ ret.val.client = IsFortyHexDigits(arg)
        /\ ret.val.bot = IsFortyHexDigits(arg)

-----------------------------------------------------------------------------
(* Specification Spec: the bot handling commands.  A command handler runs  *)
(* to its end or to its next upstream request; each upstream request and   *)
(* the handling of its response is one step.                               *)

AuthorizedUserId == 1
Users == {1, 2}

\* every user passes the check
is_authorized_user_Anyone(user_id) == TRUE

\* TokenHolderBot.is_authorized_user
is_authorized_user(user_id) == user_id = AuthorizedUserId

RECURSIVE RStrip(_)
RStrip(s) ==
    IF s /= <<>> /\ IsSpace(s[Len(s)]) THEN RStrip(SubSeq(s, 1, Len(s) - 1))
    ELSE s

\* str.strip()
Strip(s) == RStrip(LStrip(s))

Reply(kind, holders) == [kind |-> kind, holders |-> holders]

\* send_unauthorized_message
AccessDenied == Reply("denied", <<>>)

\* bool(page_key)
Truthy(key) == key /= NoKey /\ key /= EmptyKey

MetadataRequest ==
    [method |-> "alchemy_getTokenMetadata", pageKey |-> NoKey]

\* every page request is the first one again: the page key is never sent
TransfersRequest_NoKey(key) ==
    [method |-> "alchemy_getAssetTransfers", pageKey |-> NoKey]

\* lines 49-58: the parameters of a transfer-page request
TransfersRequest(key) ==
    [method |-> "alchemy_getAssetTransfers",
     pageKey |-> IF Truthy(key) THEN key ELSE NoKey]

\* a request with how it ended
Issued(request, ok) ==
    [method |-> request.method, pageKey |-> request.pageKey, ok |-> ok]

PageRequests == SelectSeq(requests, LAMBDA r : r.method = "alchemy_getAssetTransfers")

\* the loop goes on after every response that carries a page key
LoopEnds_KeyOnly(key, batch) == ~Truthy(key)

\* line 66: if not page_key or not batch_transfers: break
LoopEnds(key, batch) == ~Truthy(key) \/ batch = <<>>

\* the except branch drops the pages fetched so far
OnFetchError_Discards(acc) == <<>>

\* lines 69-74: the except branch breaks and the accumulated list is returned
OnFetchError(acc) == acc

\* lines 62-63: transfers.extend(batch_transfers)
Extend(acc, batch) == acc \o batch

\* lines 191-219: the edit of the processing message
ReplyFor(r) ==
    IF r.raised THEN Reply("error", <<>>)
    ELSE IF r.holders = <<>> THEN Reply("no_holders", <<>>)
    ELSE Reply("holders", r.holders)

(* top_holders_command, lines 189-219, on the list get_asset_transfers     *)
(* returned.                                                               *)
HoldersReply(fetched) == ReplyFor(get_top_holders(fetched, BotTopN))

\* the command arguments of the model: none, or one token address
ShortAddress == <<"1", "2", "3", "4">>
SignedAddress == <<"0", "x", "-">> \o Rep("a", 39)
CommandArgs == {<<>>, <<AbAddress>>, <<ShortAddress>>, <<SignedAddress>>}

\* the transfer batches of the model's upstream
MintToA == Transfer(ZeroAddress, AddrA, Hex64)
AToB == Transfer(AddrAUpper, AddrB, Hex32)
PageBatches ==
    {<<>>, <<MintToA>>, <<AToB>>, <<MintToA, AToB>>,
     <<Transfer(ZeroAddress, AddrB, InfValue)>>}
PageKeys == {NoKey, EmptyKey, "k1", "k2"}

Init ==
    /\ arg = <<>>
    /\ ret = NotCalled
    /\ BotIdle

\* a handler starts: the logs of the previous command are dropped
Begin(name, user, args) ==
    /\ pc = "idle"
    /\ handled < MaxCommands
    /\ handled' = handled + 1
    /\ cmd' = Command(name, user, args)
    /\ transfers' = <<>>
    /\ page_key' = NoKey
    /\ responses' = <<>>
    /\ metadata' = "none"
    /\ lookup' = "none"
    /\ requests' = <<>>
    /\ UNCHANGED <<arg, ret>>

\* TokenHolderBot.start_command
StartCommand ==
    \E user \in Users :
        /\ Begin("start", user, <<>>)
        /\ replies' = IF ~is_authorized_user(user) THEN <<AccessDenied>>
                      ELSE <<Reply("welcome", <<>>)>>
        /\ pc' = "idle"

\* TokenHolderBot.help_command
HelpCommand ==
    \E user \in Users :
        /\ Begin("help", user, <<>>)
        /\ replies' = IF ~is_authorized_user(user) THEN <<AccessDenied>>
                      ELSE <<Reply("help", <<>>)>>
        /\ pc' = "idle"

\* TokenHolderBot.whoami_command
WhoamiCommand ==
    \E user \in Users :
        /\ Begin("whoami", user, <<>>)
        /\ replies' = <<Reply("whoami", <<>>)>>
        /\ pc' = "idle"

\* the handler without the check of the address format
TopHoldersCommand_NoValidation ==
    \E user \in Users, args \in CommandArgs :
        /\ Begin("th", user, args)
        /\ IF ~is_authorized_user(user)
           THEN replies' = <<AccessDenied>> /\ pc' = "idle"
           ELSE IF args = <<>>
           THEN replies' = <<Reply("usage", <<>>)>> /\ pc' = "idle"
           ELSE replies' = <<Reply("processing", <<>>)>> /\ pc' = "meta"

\* TokenHolderBot.top_holders_command up to the processing message
TopHoldersCommand ==
    \E user \in Users, args \in CommandArgs :
        /\ Begin("th", user, args)
        /\ IF ~is_authorized_user(user)
           THEN replies' = <<AccessDenied>> /\ pc' = "idle"
           ELSE IF args = <<>>
           THEN replies' = <<Reply("usage", <<>>)>> /\ pc' = "idle"
           ELSE IF ~bot_is_valid_address(StrInput(Strip(args[1])))
           THEN replies' = <<Reply("invalid", <<>>)>> /\ pc' = "idle"
           ELSE replies' = <<Reply("processing", <<>>)>> /\ pc' = "meta"

(* TokenHolderBot.get_token_info: the metadata request; a failure is       *)
(* caught and the default metadata is used.  get_top_holders is entered.   *)
GetTokenInfo ==
    \E ok \in BOOLEAN :
        /\ pc = "meta"
        /\ requests' = Append(requests, Issued(MetadataRequest, ok))
        /\ metadata' = IF ok THEN "fetched" ELSE "default"
        /\ pc' = "fetch"
        /\ UNCHANGED <<arg, ret, cmd, transfers, page_key, responses, lookup,
                       replies, handled>>

(* get_asset_transfers: a page request answered with a batch and a page    *)
(* key, after which the loop goes on.                                      *)
FetchPageContinue ==
    \E batch \in PageBatches, key \in PageKeys :
        /\ pc = "fetch"
        /\ Len(PageRequests) + 1 < MaxPages
        /\ ~LoopEnds(key, batch)
        /\ requests' = Append(requests, Issued(TransfersRequest(page_key), TRUE))
        /\ responses' = Append(responses, [transfers |-> batch, pageKey |-> key])
        /\ transfers' = Extend(transfers, batch)
        /\ page_key' = key
        /\ UNCHANGED <<arg, ret, pc, cmd, metadata, lookup, replies, handled>>

(* get_asset_transfers: a page request answered with a response that ends  *)
(* the loop; get_top_holders and the command finish on the returned list.  *)
FetchPageLast ==
    \E batch \in PageBatches, key \in PageKeys :
        /\ pc = "fetch"
        /\ LoopEnds(key, batch)
        /\ requests' = Append(requests, Issued(TransfersRequest(page_key), TRUE))
        /\ responses' = Append(responses, [transfers |-> batch, pageKey |-> key])
        /\ transfers' = Extend(transfers, batch)
        /\ page_key' = key
        /\ lookup' = "complete"
        /\ replies' = Append(replies, HoldersReply(transfers'))
        /\ pc' = "idle"
        /\ UNCHANGED <<arg, ret, cmd, metadata, handled>>

(* get_asset_transfers: a page request that fails (a network error or a    *)
(* response with an "error" field); the except branch ends the loop, and   *)
(* get_top_holders and the command finish on the returned list.            *)
FetchPageFails ==
    /\ pc = "fetch"
    /\ requests' = Append(requests, Issued(TransfersRequest(page_key), FALSE))
    /\ transfers' = OnFetchError(transfers)
    /\ lookup' = IF responses = <<>> THEN "failed_first" ELSE "failed_later"
    /\ replies' = Append(replies, HoldersReply(transfers'))
    /\ pc' = "idle"
    /\ UNCHANGED <<arg, ret, cmd, page_key, responses, metadata, handled>>

Next ==
    \/ StartCommand
    \/ HelpCommand
    \/ WhoamiCommand
    \/ TopHoldersCommand
    \/ GetTokenInfo
    \/ FetchPageContinue
    \/ FetchPageLast
    \/ FetchPageFails

Spec == Init /\ [][Next]_vars

-----------------------------------------------------------------------------
(* Claims about the fetch loop and the /th command.                        *)

\* the batches of the responses, joined in response order
RECURSIVE JoinedBatches(_)
JoinedBatches(rs) ==
    IF rs = <<>> THEN <<>> ELSE Head(rs).transfers \o JoinedBatches(Tail(rs))

LastReply == replies[Len(replies)]

\* the response names a next page
HasNextPageKey(r) == r.pageKey /= NoKey /\ r.pageKey /= EmptyKey

(* C3: when the first transfer-page request of a lookup fails, the failure *)
(* reaches the caller as an error and the /th command ends with the        *)
(* failure message, not with "no holders found".                           *)
C3_FirstPageFailureIsAnError ==
    lookup = "failed_first" =>
        /\ LastReply.kind = "error"
        /\ LastReply.kind /= "no_holders"

(* C4: when a page request fails after at least one page was fetched,      *)
(* get_asset_transfers raises nothing and returns exactly the transfers of *)
(* the pages fetched before, in fetch order, and the failed request is the *)
(* last one issued.                                                        *)
C4_PartialResultAfterLaterFailure ==
    lookup = "failed_later" =>
        /\ responses /= <<>>
        /\ transfers = JoinedBatches(responses)
        /\ LastReply = ReplyFor(get_top_holders(JoinedBatches(responses), BotTopN))
        /\ Len(PageRequests) = Len(responses) + 1
        /\ ~requests[Len(requests)].ok
        /\ requests[Len(requests)].method = "alchemy_getAssetTransfers"
        /\ \A i \in 1..(Len(requests) - 1) :
              requests[i].method = "alchemy_getAssetTransfers" => requests[i].ok
        /\ pc = "idle"

\* the third page request failed after two pages, and holders are reported
C4_Witness ==
    /\ lookup = "failed_later"
    /\ Len(responses) = 2
    /\ Len(transfers) >= 2
    /\ LastReply.kind = "holders"

(* C5: when no request fails, the loop stops after the first response with *)
(* no next-page key or an empty batch: every earlier response has a key    *)
(* and a batch, the returned list is the batches of all responses up to    *)
(* and including that one, in request order, and no request follows it.    *)
C5_StopsAtFirstEndingResponse ==
    /\ \A i \in 1..Len(responses) :
          (i < Len(responses) \/ pc = "fetch") =>
              HasNextPageKey(responses[i]) /\ responses[i].transfers /= <<>>
    /\ lookup = "complete" =>
          /\ responses /= <<>>
          /\ \/ ~HasNextPageKey(responses[Len(responses)])
             \/ responses[Len(responses)].transfers = <<>>
          /\ transfers = JoinedBatches(responses)
          /\ Len(PageRequests) = Len(responses)
          /\ \A i \in 1..Len(requests) : requests[i].ok \/
                requests[i].method /= "alchemy_getAssetTransfers"
          /\ pc = "idle"

\* two pages with a key and a batch, then an empty page that carries a key
C5_Witness ==
    /\ lookup = "complete"
    /\ Len(responses) = 3
    /\ responses[3].transfers = <<>>
    /\ HasNextPageKey(responses[3])
    /\ Len(transfers) >= 2

(* C11: when the token-metadata request of a /th command fails, the        *)
(* command ends with the failure message: its final reply is the error     *)
(* reply, and neither a holders listing nor "no holders found".            *)
C11_MetadataFailureIsAnError ==
    (metadata = "default" /\ pc = "idle") =>
        /\ LastReply.kind = "error"
        /\ LastReply.kind /= "holders"

-----------------------------------------------------------------------------
(* Claims about the sum of the returned balances (SpecBalances).           *)

\* the sum of the balances of the entries of a dict
RECURSIVE SumBalances(_)
SumBalances(d) ==
    IF d = <<>> THEN 0 ELSE Head(d)[2] + SumBalances(Tail(d))

\* the total of the values of the transfers the loop applied
TotalApplied(ts) == SumValues(ts, 1..Len(ts))

(* C12: the sum of the balances of all entries calculate_token_balances    *)
(* returns does not exceed the total of the values of the transfers that   *)
(* were applied.                                                           *)
C12_SumWithinTotalTransferred ==
    (ret /= NotCalled /\ ~ret.val.raised) =>
        SumBalances(ret.val.balances) <= TotalApplied(arg)

-----------------------------------------------------------------------------
(* Claims about what a command may send upstream (Spec).                   *)

\* the /th command at hand has no argument, or one that fails the check
ArgumentRejected ==
    \/ cmd.args = <<>>
    \/ ~bot_is_valid_address(StrInput(Strip(cmd.args[1])))

(* C13: a /th command whose argument is missing or fails is_valid_address  *)
(* ends with its one reply (the usage or the invalid-address message for   *)
(* the authorized user) and issues no upstream request: neither a metadata *)
(* request nor a transfer-page request.                                    *)
C13_RejectedBeforeAnyRequest ==
    (cmd.name = "th" /\ ArgumentRejected) =>
        /\ requests = <<>>
        /\ responses = <<>>
        /\ metadata = "none"
        /\ lookup = "none"
        /\ pc = "idle"
        /\ Len(replies) = 1
        /\ cmd.user = AuthorizedUserId =>
              replies[1].kind = IF cmd.args = <<>> THEN "usage" ELSE "invalid"

\* the authorized user sent /th 1234 after another command
C13_Witness ==
    /\ handled = 2
    /\ cmd = Command("th", AuthorizedUserId, <<ShortAddress>>)
    /\ replies = <<Reply("invalid", <<>>)>>
    /\ requests = <<>>

(* C14: within one get_asset_transfers call the requests follow one        *)
(* another: a request is issued only after the response to the one before, *)
(* the first carries no pageKey, every later one carries the pageKey of    *)
(* the response just before it, and two requests carry the same page key   *)
(* only when two responses returned it.                                    *)
C14_SequentialPagination ==
    /\ Len(PageRequests) \in {Len(responses), Len(responses) + 1}
    /\ pc = "fetch" => Len(PageRequests) = Len(responses)
    /\ \A i \in 1..Len(PageRequests) :
          /\ i = 1 => PageRequests[i].pageKey = NoKey
          /\ i > 1 => /\ PageRequests[i].pageKey = responses[i - 1].pageKey
                      /\ PageRequests[i].pageKey /= NoKey
                      /\ PageRequests[i - 1].ok
    /\ \A i, j \in 2..Len(PageRequests) :
          (i /= j /\ PageRequests[i].pageKey = PageRequests[j].pageKey) =>
              responses[i - 1].pageKey = responses[j - 1].pageKey

\* three page requests: none, then k1, then k2 as the responses returned
C14_Witness ==
    /\ Len(PageRequests) = 3
    /\ PageRequests[1].pageKey = NoKey
    /\ PageRequests[2].pageKey = "k1"
    /\ PageRequests[3].pageKey = "k2"
    /\ responses[1].pageKey = "k1"
    /\ responses[2].pageKey = "k2"

(* C15: a /start, /help or /th command of a user other than the authorized *)
(* one gets the access-denied reply and nothing else and issues no         *)
(* upstream request; a metadata or transfer request is only ever issued in *)
(* a /th command of the authorized user.                                   *)
C15_OnlyAuthorizedUserReachesUpstream ==
    /\ (cmd.name \in {"start", "help", "th"} /\ cmd.user /= AuthorizedUserId) =>
          /\ replies = <<AccessDenied>>
          /\ requests = <<>>
          /\ pc = "idle"
    /\ (requests /= <<>> \/ pc \in {"meta", "fetch"}) =>
          /\ cmd.name = "th"
          /\ cmd.user = AuthorizedUserId

\* after a command of the authorized user, another user sent /th with a
\* well-formed address
C15_Witness ==
    /\ handled = 2
    /\ cmd = Command("th", 2, <<AbAddress>>)
    /\ replies = <<AccessDenied>>
    /\ requests = <<>>

=============================================================================
